---- MODULE Spec2Model ----
(***************************************************************************)
(* Filmstrip functions of react/features/uploadPPT/upload.js:              *)
(* shouldRemoteVideosBeVisible, isVideoPlayable, the three thumbnail size  *)
(* calculations and computeDisplayMode.                                    *)
(*                                                                         *)
(* The functions are pure.  What they read is the redux state (`state`),   *)
(* the global `interfaceConfig` and the values imported from ./constants   *)
(* (`constants`); a call writes its arguments to `input`, its return value *)
(* to `result` and its name to `pc`.                                       *)
(***************************************************************************)
EXTENDS Integers, FiniteSets, Sequences, TLC

VARIABLES
    state,            \* the redux state the selectors read
    interfaceConfig,  \* the global interfaceConfig object
    constants,        \* the values imported from ./constants
    pc,               \* "idle", or the name of the function called last
    input,            \* the arguments of the last call
    result            \* the value the last call returned

vars == <<state, interfaceConfig, constants, pc, input, result>>

(***************************************************************************)
(* JavaScript values.  A value that is not a number is one of the strings  *)
(* below; "object" stands for any object reference.                        *)
(***************************************************************************)
JsTrue == "true"
JsFalse == "false"
JsNull == "null"
JsUndefined == "undefined"
JsObject == "object"

\* ToBoolean of the values above.
Truthy(v) == v \in {JsTrue, JsObject}

\* The JavaScript value of a comparison.
JsBool(b) == IF b THEN JsTrue ELSE JsFalse

\* a || b and a && b return one of their operands.
JsOr(a, b) == IF Truthy(a) THEN a ELSE b
JsAnd(a, b) == IF Truthy(a) THEN b ELSE a

\* a ?? b
JsNullish(a, b) == IF a \in {JsNull, JsUndefined} THEN b ELSE a

\* Boolean(v)
Boolean(v) == Truthy(v)

(***************************************************************************)
(* Bounds of the model.                                                    *)
(***************************************************************************)
MaxParticipants == 4
MaxStripClientSize == 140
MaxNegativeClientSize == 20
MaxColumns == 3
MaxRows == 2
MaxTileClientWidth == 22
MaxTileClientHeight == 14

(***************************************************************************)
(* Selectors of ../base/participants: the values they resolve to are kept  *)
(* in the state.                                                           *)
(***************************************************************************)
getParticipantCountWithFake(s) == s["features/base/participants"].countWithFake

\* undefined when no participant is pinned, else the pinned participant.
getPinnedParticipant(s) == s["features/base/participants"].pinned

\* The participant with the given id, undefined when there is none.
getParticipantById(s, id) == s["features/base/participants"].byId[id]

\* The local participant, undefined before it has joined.
getLocalParticipant(s) == s["features/base/participants"].local

\* obj.field of a participant object.
Member(participant, field) ==
    CASE field = "local" -> participant.local
      [] field = "isFakeParticipant" -> participant.isFakeParticipant
      [] field = "connectionStatus" -> participant.connectionStatus

\* ToBoolean of a participant-or-undefined.
Present(participant) == participant.defined

NoParticipant ==
    [defined |-> FALSE, local |-> JsUndefined, isFakeParticipant |-> JsUndefined,
     connectionStatus |-> JsUndefined]

(***************************************************************************)
(* shouldRemoteVideosBeVisible(state)                                      *)
(***************************************************************************)
\* Variant: without the early return for calleeInfoVisible.
Mut_shouldRemoteVideosBeVisible_noInvite(s) ==
    LET participantCount == getParticipantCountWithFake(s)
        disable1On1Mode == s["features/base/config"].disable1On1Mode
        pinnedParticipant == getPinnedParticipant(s)
        pinnedIsLocal ==
            IF Present(pinnedParticipant)
            THEN Member(pinnedParticipant, "local")
            ELSE JsUndefined
    IN  Boolean(
            JsOr(JsOr(JsBool(participantCount > 2),
                      JsAnd(JsAnd(JsBool(participantCount > 1),
                                  JsBool(disable1On1Mode # JsNull)),
                            JsOr(JsBool(s["features/toolbox"].visible), pinnedIsLocal))),
                 disable1On1Mode))

\* Variant: without the disable1On1Mode !== null test.
Mut_shouldRemoteVideosBeVisible_noNullCheck(s) ==
    IF s["features/invite"].calleeInfoVisible
    THEN FALSE
    ELSE
        LET participantCount == getParticipantCountWithFake(s)
            disable1On1Mode == s["features/base/config"].disable1On1Mode
            pinnedParticipant == getPinnedParticipant(s)
            pinnedIsLocal ==
                IF Present(pinnedParticipant)
                THEN Member(pinnedParticipant, "local")
                ELSE JsUndefined
        IN  Boolean(
                JsOr(JsOr(JsBool(participantCount > 2),
                          JsAnd(JsBool(participantCount > 1),
                                JsOr(JsBool(s["features/toolbox"].visible), pinnedIsLocal))),
                     disable1On1Mode))

shouldRemoteVideosBeVisible(s) ==
    IF s["features/invite"].calleeInfoVisible
    THEN FALSE
    ELSE
        LET participantCount == getParticipantCountWithFake(s)
            disable1On1Mode == s["features/base/config"].disable1On1Mode
            pinnedParticipant == getPinnedParticipant(s)
            \* (pinnedParticipant = getPinnedParticipant(state)) && pinnedParticipant.local
            pinnedIsLocal ==
                IF Present(pinnedParticipant)
                THEN Member(pinnedParticipant, "local")
                ELSE JsUndefined
        IN  Boolean(
                JsOr(JsOr(JsBool(participantCount > 2),
                          JsAnd(JsAnd(JsBool(participantCount > 1),
                                      JsBool(disable1On1Mode # JsNull)),
                                JsOr(JsBool(s["features/toolbox"].visible), pinnedIsLocal))),
                     disable1On1Mode))

(***************************************************************************)
(* isVideoPlayable(stateful, id)                                           *)
(***************************************************************************)
\* JitsiParticipantConnectionStatus of lib-jitsi-meet.
ConnectionStatusActive == "active"
ConnectionStatusValues == {"active", "interrupted", JsUndefined}

\* The id argument: a participant id, or undefined when the caller gives none.
ParticipantIds == {"p1"}
IdArguments == ParticipantIds \cup {JsUndefined}
IdGiven(id) == id # JsUndefined

\* Track selectors of ../base/tracks/functions, resolved in the tracks slice.
getLocalVideoTrack(tracks) == tracks.localVideoTrack
getTrackByMediaTypeAndParticipant(tracks, id) == tracks.remoteVideoTrack[id]
isLocalTrackMuted(tracks) == tracks.localVideoMuted
isRemoteTrackMuted(tracks, id) == tracks.remoteVideoMuted[id]

\* participant?.field
OptionalMember(participant, field) ==
    IF Present(participant) THEN Member(participant, field) ELSE JsUndefined

\* Variant: without the connection status test of a remote participant.
Mut_isVideoPlayable_noConnectionStatus(s, id) ==
    LET tracks == s["features/base/tracks"]
        participant ==
            IF IdGiven(id) THEN getParticipantById(s, id) ELSE getLocalParticipant(s)
        isLocal == JsNullish(OptionalMember(participant, "local"), JsTrue)
        videoTrack ==
            IF Truthy(isLocal)
            THEN getLocalVideoTrack(tracks)
            ELSE getTrackByMediaTypeAndParticipant(tracks, id)
        isAudioOnly == Boolean(s["features/base/audio-only"].enabled)
    IN  IF Truthy(isLocal)
        THEN Boolean(videoTrack) /\ ~isLocalTrackMuted(tracks) /\ ~isAudioOnly
        ELSE IF ~Truthy(OptionalMember(participant, "isFakeParticipant"))
        THEN Boolean(videoTrack) /\ ~isRemoteTrackMuted(tracks, id) /\ ~isAudioOnly
        ELSE FALSE

isVideoPlayable(s, id) ==
    LET tracks == s["features/base/tracks"]
        participant ==
            IF IdGiven(id) THEN getParticipantById(s, id) ELSE getLocalParticipant(s)
        isLocal == JsNullish(OptionalMember(participant, "local"), JsTrue)
        \* const { connectionStatus } = participant || {}
        connectionStatus == OptionalMember(participant, "connectionStatus")
        videoTrack ==
            IF Truthy(isLocal)
            THEN getLocalVideoTrack(tracks)
            ELSE getTrackByMediaTypeAndParticipant(tracks, id)
        isAudioOnly == Boolean(s["features/base/audio-only"].enabled)
    IN  IF Truthy(isLocal)
        THEN Boolean(videoTrack) /\ ~isLocalTrackMuted(tracks) /\ ~isAudioOnly
        ELSE IF ~Truthy(OptionalMember(participant, "isFakeParticipant"))
        THEN /\ Boolean(videoTrack)
             /\ ~isRemoteTrackMuted(tracks, id)
             /\ ~isAudioOnly
             /\ connectionStatus = ConnectionStatusActive
        ELSE FALSE

(***************************************************************************)
(* The redux state.  Each specification draws the slices its functions     *)
(* read and leaves the others at the values below.                         *)
(***************************************************************************)
PinnedParticipants ==
    {NoParticipant}
    \cup {[defined |-> TRUE, local |-> l, isFakeParticipant |-> JsUndefined,
           connectionStatus |-> JsUndefined] : l \in {JsTrue, JsFalse, JsUndefined}}

LocalParticipants ==
    {NoParticipant,
     [defined |-> TRUE, local |-> JsTrue, isFakeParticipant |-> JsUndefined,
      connectionStatus |-> JsUndefined]}

Participants ==
    {NoParticipant}
    \cup [defined : {TRUE},
          local : {JsTrue, JsFalse, JsUndefined},
          isFakeParticipant : {JsTrue, JsUndefined},
          connectionStatus : ConnectionStatusValues]

TrackValues == {JsObject, JsUndefined}

NoTracks ==
    [localVideoTrack |-> JsUndefined, localVideoMuted |-> TRUE,
     remoteVideoTrack |-> [id \in ParticipantIds |-> JsUndefined],
     remoteVideoMuted |-> [id \in ParticipantIds |-> TRUE]]

StateOf(invite, config, toolbox, participants, tracks, audioOnly) ==
    ("features/invite" :> invite)
    @@ ("features/base/config" :> config)
    @@ ("features/toolbox" :> toolbox)
    @@ ("features/base/participants" :> participants)
    @@ ("features/base/tracks" :> tracks)
    @@ ("features/base/audio-only" :> audioOnly)

VisibilityStates ==
    {StateOf([calleeInfoVisible |-> callee],
             [disable1On1Mode |-> mode],
             [visible |-> toolbox],
             [countWithFake |-> count, pinned |-> pinned, local |-> NoParticipant,
              byId |-> [id \in ParticipantIds |-> NoParticipant]],
             NoTracks,
             [enabled |-> JsFalse]) :
        callee \in BOOLEAN,
        mode \in {JsNull, JsFalse, JsTrue, JsUndefined},
        toolbox \in BOOLEAN,
        count \in 0..MaxParticipants,
        pinned \in PinnedParticipants}

PlayabilityStates ==
    {StateOf([calleeInfoVisible |-> FALSE],
             [disable1On1Mode |-> JsUndefined],
             [visible |-> FALSE],
             [countWithFake |-> 1, pinned |-> NoParticipant, local |-> local,
              byId |-> [id \in ParticipantIds |-> remote]],
             [localVideoTrack |-> localTrack, localVideoMuted |-> localMuted,
              remoteVideoTrack |-> [id \in ParticipantIds |-> remoteTrack],
              remoteVideoMuted |-> [id \in ParticipantIds |-> remoteMuted]],
             [enabled |-> audioOnly]) :
        local \in LocalParticipants,
        remote \in Participants,
        localTrack \in TrackValues,
        localMuted \in BOOLEAN,
        remoteTrack \in TrackValues,
        remoteMuted \in BOOLEAN,
        audioOnly \in {JsTrue, JsFalse, JsUndefined}}

DefaultState ==
    StateOf([calleeInfoVisible |-> FALSE], [disable1On1Mode |-> JsUndefined],
            [visible |-> FALSE],
            [countWithFake |-> 1, pinned |-> NoParticipant, local |-> NoParticipant,
             byId |-> [id \in ParticipantIds |-> NoParticipant]],
            NoTracks, [enabled |-> JsFalse])

NoInput == [none |-> TRUE]

(***************************************************************************)
(* JavaScript numbers.  A finite number is the exact fraction n / d with   *)
(* d > 0 in lowest terms; NaN and undefined are values of their own.       *)
(***************************************************************************)
RECURSIVE Gcd(_, _)
Gcd(a, b) == IF b = 0 THEN a ELSE Gcd(b, a % b)

Abs(i) == IF i < 0 THEN -i ELSE i

\* n / d for integers n and d # 0.
Frac(n, d) ==
    LET g == Gcd(Abs(n), Abs(d))
        s == IF d < 0 THEN -1 ELSE 1
    IN  [t |-> "number", n |-> (s * n) \div g, d |-> (s * d) \div g]

Num(i) == [t |-> "number", n |-> i, d |-> 1]
NaN == [t |-> "NaN", n |-> 0, d |-> 1]
Undefined == [t |-> "undefined", n |-> 0, d |-> 1]

IsNumber(x) == x.t = "number"

\* ToNumber: undefined converts to NaN.
ToNumber(x) == IF x.t = "undefined" THEN NaN ELSE x

\* ToBoolean of a number or undefined: 0, NaN and undefined are falsy.
NumTruthy(x) == x.t = "number" /\ x.n # 0

\* a || b
NumOr(a, b) == IF NumTruthy(a) THEN a ELSE b

\* A default parameter value replaces an argument that is undefined.
DefaultParameter(x, default) == IF x.t = "undefined" THEN default ELSE x

NumAdd(x, y) ==
    LET a == ToNumber(x)
        b == ToNumber(y)
    IN  IF IsNumber(a) /\ IsNumber(b)
        THEN Frac(a.n * b.d + b.n * a.d, a.d * b.d)
        ELSE NaN

NumSub(x, y) ==
    LET a == ToNumber(x)
        b == ToNumber(y)
    IN  IF IsNumber(a) /\ IsNumber(b)
        THEN Frac(a.n * b.d - b.n * a.d, a.d * b.d)
        ELSE NaN

NumMul(x, y) ==
    LET a == ToNumber(x)
        b == ToNumber(y)
    IN  IF IsNumber(a) /\ IsNumber(b)
        THEN Frac(a.n * b.n, a.d * b.d)
        ELSE NaN

\* x / y; the divisors of the model are never 0.
NumDiv(x, y) ==
    LET a == ToNumber(x)
        b == ToNumber(y)
    IN  CASE ~(IsNumber(a) /\ IsNumber(b)) -> NaN
          [] IsNumber(a) /\ IsNumber(b) /\ b.n # 0 -> Frac(a.n * b.d, a.d * b.n)

\* x < y, x > y, x <= y: false when an operand is NaN.
NumLt(x, y) ==
    LET a == ToNumber(x)
        b == ToNumber(y)
    IN  IsNumber(a) /\ IsNumber(b) /\ a.n * b.d < b.n * a.d

NumGt(x, y) == NumLt(y, x)

NumLe(x, y) ==
    LET a == ToNumber(x)
        b == ToNumber(y)
    IN  IsNumber(a) /\ IsNumber(b) /\ a.n * b.d <= b.n * a.d

\* Math.min, Math.max and Math.floor: NaN when an argument is NaN.
MathMin(x, y) ==
    LET a == ToNumber(x)
        b == ToNumber(y)
    IN  IF IsNumber(a) /\ IsNumber(b)
        THEN (IF NumLt(b, a) THEN b ELSE a)
        ELSE NaN

MathMax(x, y) ==
    LET a == ToNumber(x)
        b == ToNumber(y)
    IN  IF IsNumber(a) /\ IsNumber(b)
        THEN (IF NumLt(a, b) THEN b ELSE a)
        ELSE NaN

MathFloor(x) ==
    LET a == ToNumber(x)
    IN  IF IsNumber(a) THEN Num(a.n \div a.d) ELSE NaN

(***************************************************************************)
(* calculateThumbnailSizeForHorizontalView(clientHeight = 0)               *)
(***************************************************************************)
\* Variant: without the || 120.
Mut_FilmStripMaxHeight_noDefault(config) == config.FILM_STRIP_MAX_HEIGHT

\* interfaceConfig.FILM_STRIP_MAX_HEIGHT || 120
FilmStripMaxHeight(config) == NumOr(config.FILM_STRIP_MAX_HEIGHT, Num(120))

\* Variant: the height clamped at 0.
Mut_calculateThumbnailSizeForHorizontalView_clamped(config, clientHeightArg) ==
    LET clientHeight == DefaultParameter(clientHeightArg, Num(0))
        topBottomMargin == Num(15)
        availableHeight ==
            MathMin(clientHeight, NumAdd(FilmStripMaxHeight(config), topBottomMargin))
        height == MathMax(NumSub(availableHeight, topBottomMargin), Num(0))
    IN  [local |->
            [height |-> height,
             width |-> MathFloor(NumMul(config.LOCAL_THUMBNAIL_RATIO, height))],
         remote |->
            [height |-> height,
             width |-> MathFloor(NumMul(config.REMOTE_THUMBNAIL_RATIO, height))]]

calculateThumbnailSizeForHorizontalView(config, clientHeightArg) ==
    LET clientHeight == DefaultParameter(clientHeightArg, Num(0))
        topBottomMargin == Num(15)
        availableHeight ==
            MathMin(clientHeight, NumAdd(FilmStripMaxHeight(config), topBottomMargin))
        height == NumSub(availableHeight, topBottomMargin)
    IN  [local |->
            [height |-> height,
             width |-> MathFloor(NumMul(config.LOCAL_THUMBNAIL_RATIO, height))],
         remote |->
            [height |-> height,
             width |-> MathFloor(NumMul(config.REMOTE_THUMBNAIL_RATIO, height))]]

(***************************************************************************)
(* calculateThumbnailSizeForVerticalView(clientWidth = 0)                  *)
(***************************************************************************)
\* Variant: without the Math.max(..., 0).
Mut_calculateThumbnailSizeForVerticalView_noMax(c, config, clientWidthArg) ==
    LET clientWidth == DefaultParameter(clientWidthArg, Num(0))
        horizontalMargin ==
            NumAdd(NumAdd(NumAdd(c.VERTICAL_FILMSTRIP_MIN_HORIZONTAL_MARGIN, c.SCROLL_SIZE),
                          c.TILE_HORIZONTAL_MARGIN),
                   c.STAGE_VIEW_THUMBNAIL_HORIZONTAL_BORDER)
        availableWidth ==
            MathMin(NumSub(clientWidth, horizontalMargin), FilmStripMaxHeight(config))
    IN  [local |->
            [height |-> MathFloor(NumDiv(availableWidth, config.LOCAL_THUMBNAIL_RATIO)),
             width |-> availableWidth],
         remote |->
            [height |-> MathFloor(NumDiv(availableWidth, config.REMOTE_THUMBNAIL_RATIO)),
             width |-> availableWidth]]

calculateThumbnailSizeForVerticalView(c, config, clientWidthArg) ==
    LET clientWidth == DefaultParameter(clientWidthArg, Num(0))
        horizontalMargin ==
            NumAdd(NumAdd(NumAdd(c.VERTICAL_FILMSTRIP_MIN_HORIZONTAL_MARGIN, c.SCROLL_SIZE),
                          c.TILE_HORIZONTAL_MARGIN),
                   c.STAGE_VIEW_THUMBNAIL_HORIZONTAL_BORDER)
        availableWidth ==
            MathMin(MathMax(NumSub(clientWidth, horizontalMargin), Num(0)),
                    FilmStripMaxHeight(config))
    IN  [local |->
            [height |-> MathFloor(NumDiv(availableWidth, config.LOCAL_THUMBNAIL_RATIO)),
             width |-> availableWidth],
         remote |->
            [height |-> MathFloor(NumDiv(availableWidth, config.REMOTE_THUMBNAIL_RATIO)),
             width |-> availableWidth]]

(***************************************************************************)
(* calculateThumbnailSizeForTileView({ columns, minVisibleRows, rows,      *)
(*     clientWidth, clientHeight, disableResponsiveTiles })                *)
(* The locals of the function, each as the code computes it.               *)
(***************************************************************************)
aspectRatio(c, a) ==
    IF ~a.disableResponsiveTiles /\ NumLt(a.clientWidth, c.ASPECT_RATIO_BREAKPOINT)
    THEN c.SQUARE_TILE_ASPECT_RATIO
    ELSE c.TILE_ASPECT_RATIO

viewWidth(c, a) == NumSub(a.clientWidth, NumMul(a.columns, c.TILE_HORIZONTAL_MARGIN))

viewHeight(c, a) == NumSub(a.clientHeight, NumMul(a.minVisibleRows, c.TILE_VERTICAL_MARGIN))

initialWidth(c, a) == NumDiv(viewWidth(c, a), a.columns)

initialHeight(c, a) == NumDiv(viewHeight(c, a), a.minVisibleRows)

aspectRatioHeight(c, a) == NumDiv(initialWidth(c, a), aspectRatio(c, a))

noScrollHeight(c, a) == NumSub(NumDiv(a.clientHeight, a.rows), c.TILE_VERTICAL_MARGIN)

scrollInitialWidth(c, a) == NumDiv(NumSub(viewWidth(c, a), c.SCROLL_SIZE), a.columns)

\* let height = ..., let width = ... before the correction.
firstHeight(c, a) == MathFloor(MathMin(aspectRatioHeight(c, a), initialHeight(c, a)))

firstWidth(c, a) == MathFloor(NumMul(aspectRatio(c, a), firstHeight(c, a)))

\* Variant: || for &&.
Mut_needsScrollCorrection_either(c, a) ==
    \/ NumGt(firstHeight(c, a), noScrollHeight(c, a))
    \/ NumGt(firstWidth(c, a), scrollInitialWidth(c, a))

\* The condition of the if statement.
needsScrollCorrection(c, a) ==
    /\ NumGt(firstHeight(c, a), noScrollHeight(c, a))
    /\ NumGt(firstWidth(c, a), scrollInitialWidth(c, a))

scrollAspectRatioHeight(c, a) == NumDiv(scrollInitialWidth(c, a), aspectRatio(c, a))

\* Variant: without the Math.max with noScrollHeight.
Mut_correctedHeight_noMax(c, a) ==
    MathFloor(MathMin(scrollAspectRatioHeight(c, a), initialHeight(c, a)))

\* Variant: Math.max for Math.min.
Mut_correctedHeight_maxForMin(c, a) ==
    MathFloor(MathMax(MathMax(scrollAspectRatioHeight(c, a), initialHeight(c, a)),
                      noScrollHeight(c, a)))

\* The height the body of the if statement assigns.
correctedHeight(c, a) ==
    MathFloor(MathMax(MathMin(scrollAspectRatioHeight(c, a), initialHeight(c, a)),
                      noScrollHeight(c, a)))

calculateThumbnailSizeForTileView(c, a) ==
    IF needsScrollCorrection(c, a)
    THEN [height |-> correctedHeight(c, a),
          width |-> MathFloor(NumMul(aspectRatio(c, a), correctedHeight(c, a)))]
    ELSE [height |-> firstHeight(c, a), width |-> firstWidth(c, a)]

(***************************************************************************)
(* computeDisplayMode(input)                                               *)
(***************************************************************************)
DISPLAY_VIDEO == "DISPLAY_VIDEO"
DISPLAY_AVATAR == "DISPLAY_AVATAR"
DISPLAY_AVATAR_WITH_NAME == "DISPLAY_AVATAR_WITH_NAME"
DISPLAY_BLACKNESS_WITH_NAME == "DISPLAY_BLACKNESS_WITH_NAME"
DISPLAY_VIDEO_WITH_NAME == "DISPLAY_VIDEO_WITH_NAME"

\* Variant: the large-video rule tested before the screen-sharing rule.
Mut_computeDisplayMode_largeVideoFirst(inp) ==
    LET adjustedIsVideoPlayable ==
            inp.isVideoPlayable /\ (~inp.isRemoteParticipant \/ inp.canPlayEventReceived)
    IN  IF inp.isCurrentlyOnLargeVideo /\ ~inp.tileViewActive
        THEN (IF adjustedIsVideoPlayable /\ ~inp.isAudioOnly
              THEN DISPLAY_BLACKNESS_WITH_NAME
              ELSE DISPLAY_AVATAR_WITH_NAME)
        ELSE IF ~inp.tileViewActive /\ inp.isScreenSharing /\ inp.isRemoteParticipant
        THEN (IF inp.isHovered THEN DISPLAY_AVATAR_WITH_NAME ELSE DISPLAY_AVATAR)
        ELSE IF adjustedIsVideoPlayable /\ ~inp.isAudioOnly
        THEN (IF inp.isHovered THEN DISPLAY_VIDEO_WITH_NAME ELSE DISPLAY_VIDEO)
        ELSE (IF inp.isHovered THEN DISPLAY_AVATAR_WITH_NAME ELSE DISPLAY_AVATAR)

computeDisplayMode(inp) ==
    LET adjustedIsVideoPlayable ==
            inp.isVideoPlayable /\ (~inp.isRemoteParticipant \/ inp.canPlayEventReceived)
    IN  IF ~inp.tileViewActive /\ inp.isScreenSharing /\ inp.isRemoteParticipant
        THEN (IF inp.isHovered THEN DISPLAY_AVATAR_WITH_NAME ELSE DISPLAY_AVATAR)
        ELSE IF inp.isCurrentlyOnLargeVideo /\ ~inp.tileViewActive
        THEN (IF adjustedIsVideoPlayable /\ ~inp.isAudioOnly
              THEN DISPLAY_BLACKNESS_WITH_NAME
              ELSE DISPLAY_AVATAR_WITH_NAME)
        ELSE IF adjustedIsVideoPlayable /\ ~inp.isAudioOnly
        THEN (IF inp.isHovered THEN DISPLAY_VIDEO_WITH_NAME ELSE DISPLAY_VIDEO)
        ELSE (IF inp.isHovered THEN DISPLAY_AVATAR_WITH_NAME ELSE DISPLAY_AVATAR)

(***************************************************************************)
(* The values of interfaceConfig and of the ./constants module.  Neither   *)
(* file is part of the sources, so each value is drawn from a small set.   *)
(***************************************************************************)
RatioValues == {Frac(16, 9), Num(1)}

InterfaceConfigs ==
    [FILM_STRIP_MAX_HEIGHT : {Undefined, Num(0), Num(100)},
     LOCAL_THUMBNAIL_RATIO : RatioValues \cup {Undefined},
     REMOTE_THUMBNAIL_RATIO : RatioValues \cup {Undefined}]

\* The value in the specifications whose functions do not read interfaceConfig.
DefaultInterfaceConfig ==
    [FILM_STRIP_MAX_HEIGHT |-> Undefined,
     LOCAL_THUMBNAIL_RATIO |-> Frac(16, 9),
     REMOTE_THUMBNAIL_RATIO |-> Num(1)]

\* The values in the specifications whose functions do not read them.
DefaultConstants ==
    [ASPECT_RATIO_BREAKPOINT |-> Num(500),
     SCROLL_SIZE |-> Num(7),
     SQUARE_TILE_ASPECT_RATIO |-> Num(1),
     STAGE_VIEW_THUMBNAIL_HORIZONTAL_BORDER |-> Num(4),
     TILE_ASPECT_RATIO |-> Frac(16, 9),
     TILE_HORIZONTAL_MARGIN |-> Num(4),
     TILE_VERTICAL_MARGIN |-> Num(4),
     VERTICAL_FILMSTRIP_MIN_HORIZONTAL_MARGIN |-> Num(10)]

\* The constants the vertical view adds up.
StripConstants ==
    {[DefaultConstants EXCEPT
        !.VERTICAL_FILMSTRIP_MIN_HORIZONTAL_MARGIN = Num(m),
        !.SCROLL_SIZE = Num(s),
        !.TILE_HORIZONTAL_MARGIN = Num(t),
        !.STAGE_VIEW_THUMBNAIL_HORIZONTAL_BORDER = Num(b)] :
        m \in {0, 10}, s \in {0, 7}, t \in {0, 4}, b \in {0, 4}}

\* The constants the tile view reads, at the scale of the tile bounds.
TileConstants ==
    {[DefaultConstants EXCEPT
        !.ASPECT_RATIO_BREAKPOINT = Num(12),
        !.TILE_ASPECT_RATIO = r,
        !.TILE_HORIZONTAL_MARGIN = Num(h),
        !.TILE_VERTICAL_MARGIN = Num(v),
        !.SCROLL_SIZE = Num(s)] :
        r \in {Frac(16, 9), Frac(4, 3)}, h \in {0, 2}, v \in {0, 1}, s \in {0, 3}}

StripClientSizes ==
    {Num(i) : i \in (-MaxNegativeClientSize)..MaxStripClientSize} \cup {Undefined}

TileInputs ==
    [columns : {Num(i) : i \in 1..MaxColumns},
     minVisibleRows : {Num(i) : i \in 1..MaxRows},
     rows : {Num(i) : i \in 1..MaxRows},
     clientWidth : {Num(i) : i \in 0..MaxTileClientWidth},
     clientHeight : {Num(i) : i \in 0..MaxTileClientHeight},
     disableResponsiveTiles : BOOLEAN]

DisplayModeInputs ==
    [isAudioOnly : BOOLEAN,
     isCurrentlyOnLargeVideo : BOOLEAN,
     isScreenSharing : BOOLEAN,
     canPlayEventReceived : BOOLEAN,
     isHovered : BOOLEAN,
     isRemoteParticipant : BOOLEAN,
     tileViewActive : BOOLEAN,
     isVideoPlayable : BOOLEAN]

(***************************************************************************)
(* The calls.  The arguments are in `input`; a call leaves the name of the *)
(* function in `pc` and what it returned in `result`.                      *)
(***************************************************************************)
CallShouldRemoteVideosBeVisible ==
    /\ pc' = "shouldRemoteVideosBeVisible"
    /\ result' = shouldRemoteVideosBeVisible(state)
    /\ UNCHANGED <<state, interfaceConfig, constants, input>>

CallIsVideoPlayable ==
    /\ pc' = "isVideoPlayable"
    /\ result' = isVideoPlayable(state, input.id)
    /\ UNCHANGED <<state, interfaceConfig, constants, input>>

CallCalculateThumbnailSizeForHorizontalView ==
    /\ pc' = "calculateThumbnailSizeForHorizontalView"
    /\ result' = calculateThumbnailSizeForHorizontalView(interfaceConfig, input.clientSize)
    /\ UNCHANGED <<state, interfaceConfig, constants, input>>

CallCalculateThumbnailSizeForVerticalView ==
    /\ pc' = "calculateThumbnailSizeForVerticalView"
    /\ result' =
        calculateThumbnailSizeForVerticalView(constants, interfaceConfig, input.clientSize)
    /\ UNCHANGED <<state, interfaceConfig, constants, input>>

CallCalculateThumbnailSizeForTileView ==
    /\ pc' = "calculateThumbnailSizeForTileView"
    /\ result' = calculateThumbnailSizeForTileView(constants, input)
    /\ UNCHANGED <<state, interfaceConfig, constants, input>>

CallComputeDisplayMode ==
    /\ pc' = "computeDisplayMode"
    /\ result' = computeDisplayMode(input)
    /\ UNCHANGED <<state, interfaceConfig, constants, input>>

(***************************************************************************)
(* One specification for each group of functions: its Init draws what the  *)
(* functions read and the arguments, its Next calls them.                  *)
(***************************************************************************)
NotCalled ==
    /\ pc = "idle"
    /\ result = FALSE

InitVisible ==
    /\ state \in VisibilityStates
    /\ interfaceConfig = DefaultInterfaceConfig
    /\ constants = DefaultConstants
    /\ input = NoInput
    /\ NotCalled

NextVisible == CallShouldRemoteVideosBeVisible

SpecVisible == InitVisible /\ [][NextVisible]_vars

InitPlayable ==
    /\ state \in PlayabilityStates
    /\ interfaceConfig = DefaultInterfaceConfig
    /\ constants = DefaultConstants
    /\ input \in [id : IdArguments]
    /\ NotCalled

NextPlayable == CallIsVideoPlayable

SpecPlayable == InitPlayable /\ [][NextPlayable]_vars

InitStrip ==
    /\ state = DefaultState
    /\ interfaceConfig \in InterfaceConfigs
    /\ constants \in StripConstants
    /\ input \in [clientSize : StripClientSizes]
    /\ NotCalled

NextStrip ==
    \/ CallCalculateThumbnailSizeForHorizontalView
    \/ CallCalculateThumbnailSizeForVerticalView

SpecStrip == InitStrip /\ [][NextStrip]_vars

InitTile ==
    /\ state = DefaultState
    /\ interfaceConfig = DefaultInterfaceConfig
    /\ constants \in TileConstants
    /\ input \in TileInputs
    /\ NotCalled

NextTile == CallCalculateThumbnailSizeForTileView

SpecTile == InitTile /\ [][NextTile]_vars

InitDisplay ==
    /\ state = DefaultState
    /\ interfaceConfig = DefaultInterfaceConfig
    /\ constants = DefaultConstants
    /\ input \in DisplayModeInputs
    /\ NotCalled

NextDisplay == CallComputeDisplayMode

SpecDisplay == InitDisplay /\ [][NextDisplay]_vars

(***************************************************************************)
(* Visibility of the remote thumbnails.                                    *)
(***************************************************************************)
VisibleCalled == pc = "shouldRemoteVideosBeVisible"

calleeInfoVisible == state["features/invite"].calleeInfoVisible
participantCount == state["features/base/participants"].countWithFake
disable1On1Mode == state["features/base/config"].disable1On1Mode
toolboxVisible == state["features/toolbox"].visible

\* The pinned participant is the local one.
PinnedIsLocal ==
    /\ state["features/base/participants"].pinned.defined
    /\ state["features/base/participants"].pinned.local = JsTrue

C2_Original == (VisibleCalled /\ participantCount = 3) => result = TRUE

\* C2 amended: with participantCount = 3 and calleeInfoVisible false the result
\* is true regardless of disable1On1Mode, the toolbox and the pinned
\* participant; with calleeInfoVisible true it is false.
C2_ThreeParticipants ==
    (VisibleCalled /\ participantCount = 3) => (result = TRUE <=> ~calleeInfoVisible)

\* Three participants and every flag against showing the strip.
C2_Witness ==
    /\ VisibleCalled
    /\ participantCount = 3
    /\ ~calleeInfoVisible
    /\ disable1On1Mode = JsNull
    /\ ~toolboxVisible
    /\ ~state["features/base/participants"].pinned.defined
    /\ result = TRUE

(***************************************************************************)
(* Playability of a participant's video.                                   *)
(***************************************************************************)
PlayableCalled == pc = "isVideoPlayable"

\* The participant the id argument resolves to.
ResolvedParticipant ==
    IF input.id = JsUndefined
    THEN state["features/base/participants"].local
    ELSE state["features/base/participants"].byId[input.id]

audioOnlyEnabled == state["features/base/audio-only"].enabled = JsTrue

LocalVideoUsable ==
    /\ state["features/base/tracks"].localVideoTrack = JsObject
    /\ ~state["features/base/tracks"].localVideoMuted
    /\ ~audioOnlyEnabled

RemoteVideoUsable ==
    /\ state["features/base/tracks"].remoteVideoTrack[input.id] = JsObject
    /\ ~state["features/base/tracks"].remoteVideoMuted[input.id]
    /\ ~audioOnlyEnabled

IsLocalKind == ResolvedParticipant.defined /\ ResolvedParticipant.local = JsTrue

IsRemoteKind == ResolvedParticipant.defined /\ ResolvedParticipant.local = JsFalse

IsFakeKind == ResolvedParticipant.isFakeParticipant = JsTrue

\* C3: isVideoPlayable returns, for a local participant, true exactly when the
\* track is present, not muted and audio-only is off; for a remote participant
\* that is not fake, true exactly when moreover the connection status is
\* ACTIVE; for a remote fake participant, false.
C3_Playable ==
    PlayableCalled =>
        /\ IsLocalKind => (result = TRUE <=> LocalVideoUsable)
        /\ (IsRemoteKind /\ ~IsFakeKind) =>
            (result = TRUE <=>
                /\ RemoteVideoUsable
                /\ ResolvedParticipant.connectionStatus = ConnectionStatusActive)
        /\ (IsRemoteKind /\ IsFakeKind) => result = FALSE

\* A remote participant with a usable track whose connection is interrupted.
C3_Witness ==
    /\ PlayableCalled
    /\ IsRemoteKind
    /\ ~IsFakeKind
    /\ RemoteVideoUsable
    /\ ResolvedParticipant.connectionStatus = "interrupted"
    /\ result = FALSE

(***************************************************************************)
(* The display mode of a thumbnail.                                        *)
(***************************************************************************)
DisplayCalled == pc = "computeDisplayMode"

adjustedPlayable ==
    input.isVideoPlayable /\ (~input.isRemoteParticipant \/ input.canPlayEventReceived)

Rule1 == ~input.tileViewActive /\ input.isScreenSharing /\ input.isRemoteParticipant
Rule2 == input.isCurrentlyOnLargeVideo /\ ~input.tileViewActive
Rule3 == adjustedPlayable /\ ~input.isAudioOnly

TileCalled == pc = "calculateThumbnailSizeForTileView"

HeightOverflows == NumGt(firstHeight(constants, input), noScrollHeight(constants, input))

WidthOverflows == NumGt(firstWidth(constants, input), scrollInitialWidth(constants, input))

\* height = floor(min(aspectRatioHeight, initialHeight)), width = floor(aspectRatio * height)
UncorrectedSize ==
    LET height ==
            MathFloor(MathMin(aspectRatioHeight(constants, input),
                              initialHeight(constants, input)))
    IN  [height |-> height,
         width |-> MathFloor(NumMul(aspectRatio(constants, input), height))]

\* The size recomputed from scrollInitialWidth.
CorrectedSize ==
    LET height ==
            MathFloor(MathMax(MathMin(NumDiv(scrollInitialWidth(constants, input),
                                             aspectRatio(constants, input)),
                                      initialHeight(constants, input)),
                              noScrollHeight(constants, input)))
    IN  [height |-> height,
         width |-> MathFloor(NumMul(aspectRatio(constants, input), height))]

\* C5: the scroll correction is applied exactly when both the first-pass
\* height > noScrollHeight and the first-pass width > scrollInitialWidth; where
\* only one of the two holds, or neither, the result is the uncorrected size.
C5_CorrectionOnlyWhenBoth ==
    TileCalled =>
        /\ (HeightOverflows /\ WidthOverflows) => result = CorrectedSize
        /\ ~(HeightOverflows /\ WidthOverflows) => result = UncorrectedSize

\* Only the height overflows, and the corrected size would differ.
C5_Witness ==
    /\ TileCalled
    /\ HeightOverflows
    /\ ~WidthOverflows
    /\ CorrectedSize # UncorrectedSize
    /\ result = UncorrectedSize

\* Only the width overflows, and the corrected size would differ.
C5_WitnessWidthOnly ==
    /\ TileCalled
    /\ ~HeightOverflows
    /\ WidthOverflows
    /\ CorrectedSize # UncorrectedSize
    /\ result = UncorrectedSize

\* C6 as stated: whenever the scroll correction fires, the returned height is
\* at least noScrollHeight = clientHeight / rows - TILE_VERTICAL_MARGIN.
C6_Original ==
    (TileCalled /\ HeightOverflows /\ WidthOverflows)
        => NumLe(noScrollHeight(constants, input), result.height)

\* C6 amended: whenever the scroll correction fires, the returned height is at
\* least floor(noScrollHeight), that is, more than noScrollHeight - 1.
C6_NotBelowFlooredNoScrollHeight ==
    (TileCalled /\ HeightOverflows /\ WidthOverflows)
        => /\ NumLe(MathFloor(noScrollHeight(constants, input)), result.height)
           /\ NumGt(result.height, NumSub(noScrollHeight(constants, input), Num(1)))

\* The correction fires and the scroll-adjusted height is below noScrollHeight,
\* so that noScrollHeight decides the result.
C6_Witness ==
    /\ TileCalled
    /\ HeightOverflows
    /\ WidthOverflows
    /\ NumLt(MathMin(scrollAspectRatioHeight(constants, input),
                     initialHeight(constants, input)),
             noScrollHeight(constants, input))
    /\ result.height = MathFloor(noScrollHeight(constants, input))

\* C10: whether or not the correction fires, the tile fits the container:
\* columns * (width + TILE_HORIZONTAL_MARGIN) <= clientWidth and
\* minVisibleRows * (height + TILE_VERTICAL_MARGIN) <= clientHeight, and the
\* result is never larger than the first-pass width and height.
C10_TileFits ==
    TileCalled =>
        /\ NumLe(NumMul(input.columns,
                        NumAdd(result.width, constants.TILE_HORIZONTAL_MARGIN)),
                 input.clientWidth)
        /\ NumLe(NumMul(input.minVisibleRows,
                        NumAdd(result.height, constants.TILE_VERTICAL_MARGIN)),
                 input.clientHeight)
        /\ NumLe(result.width, firstWidth(constants, input))
        /\ NumLe(result.height, firstHeight(constants, input))

\* The correction fires and shrinks the tile.
C10_Witness ==
    /\ TileCalled
    /\ HeightOverflows
    /\ WidthOverflows
    /\ NumLt(result.height, firstHeight(constants, input))
    /\ NumLt(result.width, firstWidth(constants, input))

(***************************************************************************)
(* The horizontal and the vertical filmstrip.                              *)
(***************************************************************************)
HorizontalCalled == pc = "calculateThumbnailSizeForHorizontalView"

VerticalCalled == pc = "calculateThumbnailSizeForVerticalView"

StripCalled == HorizontalCalled \/ VerticalCalled

\* The size argument, 0 when it is omitted.
clientSize == IF input.clientSize.t = "undefined" THEN Num(0) ELSE input.clientSize

MaxHeightUnset == interfaceConfig.FILM_STRIP_MAX_HEIGHT.t = "undefined"

\* FILM_STRIP_MAX_HEIGHT, 120 when it is unset (or 0).
cap ==
    IF MaxHeightUnset \/ interfaceConfig.FILM_STRIP_MAX_HEIGHT.n = 0
    THEN Num(120)
    ELSE interfaceConfig.FILM_STRIP_MAX_HEIGHT

LocalRatioSet == interfaceConfig.LOCAL_THUMBNAIL_RATIO.t = "number"

RemoteRatioSet == interfaceConfig.REMOTE_THUMBNAIL_RATIO.t = "number"

horizontalMargin ==
    NumAdd(NumAdd(constants.VERTICAL_FILMSTRIP_MIN_HORIZONTAL_MARGIN, constants.SCROLL_SIZE),
           NumAdd(constants.TILE_HORIZONTAL_MARGIN,
                  constants.STAGE_VIEW_THUMBNAIL_HORIZONTAL_BORDER))

\* C7: calculateThumbnailSizeForHorizontalView returns local.height =
\* remote.height = min(clientHeight, cap + 15) - 15 with no clamping: the
\* height is <= -15 for every clientHeight <= 0 (an omitted clientHeight
\* counts as 0) and never exceeds cap; local.width and remote.width are
\* floor(LOCAL_THUMBNAIL_RATIO * height) and floor(REMOTE_THUMBNAIL_RATIO * height).
C7_HorizontalSize ==
    HorizontalCalled =>
        LET height == NumSub(MathMin(clientSize, NumAdd(cap, Num(15))), Num(15))
        IN  /\ result.local.height = height
            /\ result.remote.height = height
            /\ NumLe(clientSize, Num(0)) => NumLe(result.local.height, Num(-15))
            /\ NumLe(result.local.height, cap)
            /\ result.local.width
                    = MathFloor(NumMul(interfaceConfig.LOCAL_THUMBNAIL_RATIO, height))
            /\ result.remote.width
                    = MathFloor(NumMul(interfaceConfig.REMOTE_THUMBNAIL_RATIO, height))

\* A negative clientHeight with both ratios set: the height is below -15 and
\* the local width is negative too.
C7_Witness ==
    /\ HorizontalCalled
    /\ NumLt(clientSize, Num(0))
    /\ LocalRatioSet
    /\ RemoteRatioSet
    /\ NumLt(result.local.height, Num(-15))
    /\ NumLt(result.local.width, Num(-15))

\* C8: calculateThumbnailSizeForVerticalView returns local.width =
\* remote.width = min(max(clientWidth - horizontalMargin, 0), cap), so
\* 0 <= width <= cap for every clientWidth, and local.height and remote.height
\* are floor(width / LOCAL_THUMBNAIL_RATIO) and floor(width / REMOTE_THUMBNAIL_RATIO).
C8_VerticalSize ==
    VerticalCalled =>
        LET width == MathMin(MathMax(NumSub(clientSize, horizontalMargin), Num(0)), cap)
        IN  /\ result.local.width = width
            /\ result.remote.width = width
            /\ NumLe(Num(0), result.local.width)
            /\ NumLe(result.local.width, cap)
            /\ result.local.height
                    = MathFloor(NumDiv(width, interfaceConfig.LOCAL_THUMBNAIL_RATIO))
            /\ result.remote.height
                    = MathFloor(NumDiv(width, interfaceConfig.REMOTE_THUMBNAIL_RATIO))

\* A clientWidth smaller than the margin: the width is 0.
C8_Witness ==
    /\ VerticalCalled
    /\ NumLt(clientSize, horizontalMargin)
    /\ NumLt(Num(0), horizontalMargin)
    /\ result.local.width = Num(0)
    /\ result.remote.width = Num(0)

AllDimensionsAreNumbers ==
    /\ IsNumber(result.local.height)
    /\ IsNumber(result.local.width)
    /\ IsNumber(result.remote.height)
    /\ IsNumber(result.remote.width)

\* C9 as stated: an unset ratio is replaced by 120, an omitted clientHeight by
\* 0, and every returned dimension is a well-defined number.
C9_Original ==
    /\ StripCalled => AllDimensionsAreNumbers
    /\ (HorizontalCalled /\ ~LocalRatioSet) =>
        result.local.width = MathFloor(NumMul(Num(120), result.local.height))
    /\ (HorizontalCalled /\ ~RemoteRatioSet) =>
        result.remote.width = MathFloor(NumMul(Num(120), result.remote.height))
    /\ (VerticalCalled /\ ~LocalRatioSet) =>
        result.local.height = MathFloor(NumDiv(result.local.width, Num(120)))
    /\ (VerticalCalled /\ ~RemoteRatioSet) =>
        result.remote.height = MathFloor(NumDiv(result.remote.width, Num(120)))

\* C9 amended: the defaults are 120 for an unset FILM_STRIP_MAX_HEIGHT and 0
\* for an omitted clientHeight or clientWidth, and the dimensions computed from
\* them are numbers.  A ratio has no default: the dimension computed from a
\* ratio is a number exactly when that ratio is set, and NaN when it is unset.
C9_Defaulting ==
    /\ (HorizontalCalled /\ MaxHeightUnset) =>
        result.local.height = NumSub(MathMin(clientSize, Num(135)), Num(15))
    /\ (VerticalCalled /\ MaxHeightUnset) =>
        result.local.width
            = MathMin(MathMax(NumSub(clientSize, horizontalMargin), Num(0)), Num(120))
    /\ (HorizontalCalled /\ input.clientSize.t = "undefined") =>
        result.local.height = Num(-15)
    /\ (VerticalCalled /\ input.clientSize.t = "undefined") =>
        result.local.width = Num(0)
    /\ HorizontalCalled =>
        /\ IsNumber(result.local.height)
        /\ result.remote.height = result.local.height
        /\ IF LocalRatioSet THEN IsNumber(result.local.width) ELSE result.local.width = NaN
        /\ IF RemoteRatioSet THEN IsNumber(result.remote.width) ELSE result.remote.width = NaN
    /\ VerticalCalled =>
        /\ IsNumber(result.local.width)
        /\ result.remote.width = result.local.width
        /\ IF LocalRatioSet THEN IsNumber(result.local.height) ELSE result.local.height = NaN
        /\ IF RemoteRatioSet THEN IsNumber(result.remote.height) ELSE result.remote.height = NaN

\* Nothing is configured and clientHeight is omitted: the height is -15 and
\* both widths are NaN.
C9_Witness ==
    /\ HorizontalCalled
    /\ MaxHeightUnset
    /\ ~LocalRatioSet
    /\ ~RemoteRatioSet
    /\ input.clientSize.t = "undefined"
    /\ result.local.height = Num(-15)
    /\ result.local.width = NaN
    /\ result.remote.width = NaN

====
